---- MODULE Spec2Model ----
(***************************************************************************)
(* Adaptive interview engine of the Nexora interview preparation system:   *)
(* the question selector (interview/utils.py), the views that drive one    *)
(* interview through the Django session (interview/views.py) and the       *)
(* question bank read (interview/db_operations.py).                        *)
(*                                                                         *)
(* Conventions.  Python dictionaries are TLA+ functions whose domain is    *)
(* the set of keys that are present.  Scores are kept in hundredths        *)
(* (0..100): every score that enters the session went through              *)
(* round(score, 2).  Strings that are searched (skills, keywords) are      *)
(* tuples of one-character strings.  A question text is a number.          *)
(***************************************************************************)
EXTENDS Integers, Sequences, FiniteSets, TLC

VARIABLES
    bank,           \* rows of the Question table, in primary-key order
    resume_skills,  \* Resume.skills of the user's latest resume
    profile_level,  \* Profile.current_level
    session,        \* request.session of the user (a dictionary)
    saved,          \* rows of the InterviewSession table, oldest first
    response,       \* what the last request answered
    probe,          \* arguments of a direct call of get_adaptive_questions
    probe_result    \* what that call returned

vars == <<bank, resume_skills, profile_level, session, saved, response, probe, probe_result>>

-----------------------------------------------------------------------------
(* Bounds of the model *)

MaxSingle == 4          \* rows of a bank that holds one tier only
MaxHard == 2            \* hard rows of a bank with full beginner and intermediate quotas
MaxSaved == 1           \* interviews completed in one behaviour

-----------------------------------------------------------------------------
(* Python values *)

None == [none |-> TRUE]
KeyError == [raised |-> "KeyError"]
TypeError == [raised |-> "TypeError"]

Raised(v) == "raised" \in DOMAIN v

\* dict.get(key, default)
Get(d, k, default) == IF k \in DOMAIN d THEN d[k] ELSE default

\* d[key] = value
Put(d, k, v) == [x \in DOMAIN d \cup {k} |-> IF x = k THEN v ELSE d[x]]

\* A deletion that deletes nothing
Del_nothing(d, keys) == d

\* del d[key] for every key of keys that is present
Del(d, keys) == [x \in DOMAIN d \ keys |-> d[x]]

\* seq[-n:]
LastN(seq, n) == IF Len(seq) <= n THEN seq ELSE SubSeq(seq, Len(seq) - n + 1, Len(seq))

\* seq[:n]
FirstN(seq, n) == IF Len(seq) <= n THEN seq ELSE SubSeq(seq, 1, n)

Range(seq) == {seq[i] : i \in DOMAIN seq}

RECURSIVE SumScores(_)
SumScores(items) == IF items = <<>> THEN 0 ELSE Head(items).score + SumScores(Tail(items))

-----------------------------------------------------------------------------
(* Text: characters, str.lower() and the substring test `a in b` *)

LowerChar(c) == CASE c = "S" -> "s" [] c = "Q" -> "q" [] c = "L" -> "l" [] OTHER -> c

lower(s) == [i \in DOMAIN s |-> LowerChar(s[i])]

\* a in b, for strings
IsSubstring(a, b) ==
    \E i \in 0..(Len(b) - Len(a)) : \A j \in 1..Len(a) : b[i + j] = a[j]

KwMysql == <<"m", "y", "s", "q", "l">>
KwOs == <<"o", "s">>
SkillSql == <<"S", "Q", "L">>

\* The characters of the model's texts: letters (the capitals S, Q and L
\* only), digits, string.punctuation and the space
Letters ==
    {"a", "b", "c", "d", "e", "f", "g", "h", "i", "j", "k", "l", "m", "n",
     "o", "p", "q", "r", "s", "t", "u", "v", "w", "x", "y", "z"}
Capitals == {"S", "Q", "L"}
Digits ==
    {"0", "1", "2", "3", "4", "5", "6", "7", "8", "9"}
\* string.punctuation, without the backquote (no text of the model holds one)
Punctuation ==
    {"!", "\"", "#", "$", "%", "&", "'", "(", ")", "*", "+", ",", "-", ".",
     "/", ":", ";", "<", "=", ">", "?", "@", "[", "\\", "]", "^", "_", "{", "|", "}", "~"}
Whitespace == {" "}
\* The characters \w matches
WordChars == Letters \cup Capitals \cup Digits \cup {"_"}
Alphabet == WordChars \cup Punctuation \cup Whitespace

\* None where a string is expected and None where a list of strings is
\* expected: no string is NoText (a string is a tuple of single characters)
\* and no list of strings is NoList
NoText == <<"None">>
NoList == <<NoText>>

\* not x, for x a string or None, and for x a list of strings or None
Falsy(v) == v = <<>> \/ v = NoText
FalsyList(v) == v = <<>> \/ v = NoList

\* x or '' and x or []
OrEmpty(v) == IF Falsy(v) THEN <<>> ELSE v
OrEmptyList(v) == IF FalsyList(v) THEN <<>> ELSE v

\* The text without the characters of a set: str.translate with a deletion table
RemoveChars(s, chars) == SelectSeq(s, LAMBDA c : c \notin chars)

RECURSIVE Runs(_, _)
\* The maximal runs of characters of `keep` in a text, in order: re.findall
\* of keep+, and re.split on the other characters without the empty strings
Runs(s, keep) ==
    IF s = <<>> THEN <<>>
    ELSE IF Head(s) \notin keep THEN Runs(Tail(s), keep)
    ELSE LET n == CHOOSE k \in 1..Len(s) :
                      /\ \A i \in 1..k : s[i] \in keep
                      /\ k = Len(s) \/ s[k + 1] \notin keep
         IN  <<SubSeq(s, 1, n)>> \o Runs(SubSeq(s, n + 1, Len(s)), keep)

\* str.strip()
strip(s) ==
    LET inside == {i \in DOMAIN s : s[i] \notin Whitespace}
    IN  IF inside = {} THEN <<>>
        ELSE SubSeq(s, CHOOSE i \in inside : \A j \in inside : i <= j,
                       CHOOSE i \in inside : \A j \in inside : i >= j)

\* sep.join(parts)
RECURSIVE Join(_, _)
Join(parts, sep) ==
    IF parts = <<>> THEN <<>>
    ELSE IF Len(parts) = 1 THEN Head(parts)
    ELSE Head(parts) \o sep \o Join(Tail(parts), sep)

-----------------------------------------------------------------------------
(* The difficulty tiers *)

LEVEL_ORDER == <<"beginner", "intermediate", "hard">>

Tiers == Range(LEVEL_ORDER)

TierIndex(lvl) == CHOOSE i \in DOMAIN LEVEL_ORDER : LEVEL_ORDER[i] = lvl

-----------------------------------------------------------------------------
(* The Question table (interview/models.py) *)

\* One row.  The reference answer column is left out: nothing reads it.
QuestionRow(id, text, lvl, kws) ==
    [id |-> id, question_text |-> text, level |-> lvl, keywords |-> kws, tokens |-> kws]

\* The k-th row of a tier: its text is unique, the first row of each tier is
\* about MySQL and the others are about operating systems.  Primary keys are
\* above 100 and question texts below: no question text is the decimal form
\* of a primary key.
TierRow(lvl, k) ==
    QuestionRow(100 + 10 * TierIndex(lvl) + k, 10 * TierIndex(lvl) + k, lvl,
                IF k = 1 THEN <<KwMysql>> ELSE <<KwOs>>)

\* A second row with the text of the first beginner row, filed as hard.
DuplicateRow == QuestionRow(140, 10 * TierIndex("beginner") + 1, "hard", <<KwOs>>)

\* nb beginner, ni intermediate and nh hard rows; with dup, the first
\* beginner question was entered a second time as a hard question.
MakeBank(nb, ni, nh, dup) ==
    [k \in 1..nb |-> TierRow("beginner", k)]
    \o [k \in 1..ni |-> TierRow("intermediate", k)]
    \o [k \in 1..nh |-> TierRow("hard", k)]
    \o (IF dup THEN <<DuplicateRow>> ELSE <<>>)

\* Banks of one tier only, with up to MaxSingle rows
SingleTierBanks ==
    UNION {{MakeBank(n, 0, 0, FALSE), MakeBank(0, n, 0, FALSE), MakeBank(0, 0, n, FALSE)} :
              n \in 0..MaxSingle}

\* Banks with 4 beginner and 3 intermediate rows and up to MaxHard hard rows,
\* and the one with a single hard row and the twice-entered question
MixedBanks == {MakeBank(4, 3, nh, FALSE) : nh \in 1..MaxHard} \cup {MakeBank(4, 3, 1, TRUE)}

\* The bank with one beginner row, one hard row and one intermediate row
\* more than the intermediate quota
SparseBanks == {MakeBank(1, 4, 1, FALSE)}

Banks == SingleTierBanks \cup MixedBanks \cup SparseBanks

SkillLists == {<<>>, <<SkillSql>>}

-----------------------------------------------------------------------------
(* interview/db_operations.py *)

\* The dictionary get_questions_by_skills builds of a row: it has no 'tokens'.
MatchedDict(q) ==
    [keywords |-> q.keywords, question_text |-> q.question_text, level |-> q.level]

\* any(skill in k or k in skill for k in question_keywords for skill in lower_skills)
SkillMatches(q, skills) ==
    \E i \in DOMAIN q.keywords : \E j \in DOMAIN skills :
        /\ q.keywords[i] # <<>>
        /\ \/ IsSubstring(lower(skills[j]), lower(q.keywords[i]))
           \/ IsSubstring(lower(q.keywords[i]), lower(skills[j]))

RECURSIVE MatchRows(_, _, _)
\* The loop over Question.objects.all(): rows without keywords are skipped and
\* the loop stops as soon as `limit` rows matched.
MatchRows(rows, skills, limit) ==
    IF rows = <<>> THEN <<>>
    ELSE IF Head(rows).keywords # <<>> /\ SkillMatches(Head(rows), skills)
         THEN <<MatchedDict(Head(rows))>>
              \o (IF 1 >= limit THEN <<>> ELSE MatchRows(Tail(rows), skills, limit - 1))
         ELSE MatchRows(Tail(rows), skills, limit)

get_questions_by_skills(skills, limit, rows) == MatchRows(rows, skills, limit)

-----------------------------------------------------------------------------
(* interview/utils.py: the question pool *)

PoolLimit == 300

\* The dictionary built of a row when no row matched the skills.
FullDict(q) ==
    [keywords |-> q.keywords, tokens |-> q.tokens,
     question_text |-> q.question_text, level |-> q.level]

\* The skill-matched questions, or every question when none matched: the
\* first lines of both _build_question_pool and get_fixed_interview_questions
all_questions(skills, rows) ==
    LET pool == get_questions_by_skills(skills, PoolLimit, rows)
    IN  IF pool # <<>> THEN pool ELSE [i \in DOMAIN rows |-> FullDict(rows[i])]

\* The pool before random.shuffle(pool); the shuffle makes every order of it
\* possible, so the callers take any element where the code takes the first.
_build_question_pool(skills, rows) == all_questions(skills, rows)

-----------------------------------------------------------------------------
(* interview/utils.py: get_adaptive_questions *)

\* used_texts built from every answered item but the latest
used_texts_stale(answered) ==
    {answered[i].question_text : i \in DOMAIN answered \ {Len(answered)}}

\* used_texts = {a['question_text'] for a in answered}
used_texts(answered) == {answered[i].question_text : i \in DOMAIN answered}

\* counts[lvl] after the counting loop; levels outside the three tiers are
\* not counted.
counts(answered, lvl) == Cardinality({i \in DOMAIN answered : answered[i].level = lvl})

\* last_level = answered[-1]['level'] if answered else base_level
last_level(answered, base_level) ==
    IF answered # <<>> THEN answered[Len(answered)].level ELSE base_level

\* recent = answered[-2:]
recent(answered) == LastN(answered, 2)

\* First scores a (in hundredths) of the pairs a + b = 80 whose binary64 sum
\* a/100 + b/100 is 0.7999999999999999, so that half of it is
\* 0.39999999999999997 and not 0.4 (0.1 + 0.7, 0.21 + 0.59, ...).  Every
\* other pair and every single score compares with 0.75 and 0.40 as the
\* exact mean does.
Binary64SumBelow80 == {8, 9, 10, 11, 21, 22, 23, 57, 58, 59, 69, 70, 71, 72}

\* avg_recent = sum(scores of recent) / len(recent) if recent else 0, as
\* twice the exact mean in hundredths.
avg_recent_x2(answered) ==
    LET r == recent(answered)
    IN  IF r = <<>> THEN 0
        ELSE IF Len(r) = 1 THEN 2 * r[1].score
        ELSE SumScores(r)

\* avg_recent > 0.75
avg_above_075(answered) == avg_recent_x2(answered) > 150

\* avg_recent < 0.40, in binary64 arithmetic
avg_below_040(answered) ==
    LET r == recent(answered)
    IN  \/ avg_recent_x2(answered) < 80
        \/ /\ Len(r) = 2
           /\ r[1].score + r[2].score = 80
           /\ r[1].score \in Binary64SumBelow80

escalate_map == [beginner |-> "intermediate", intermediate |-> "hard"]
descend_map == [hard |-> "intermediate", intermediate |-> "beginner"]

\* desired with the thresholds compared by `>=` and `<=`
desired_level_inclusive(answered, base_level) ==
    LET last == last_level(answered, base_level)
    IN  IF avg_recent_x2(answered) >= 150 /\ last \in DOMAIN escalate_map
        THEN escalate_map[last]
        ELSE IF avg_recent_x2(answered) <= 80 /\ last \in DOMAIN descend_map
        THEN descend_map[last]
        ELSE last

\* desired, before the distribution caps are enforced
desired_level(answered, base_level) ==
    LET last == last_level(answered, base_level)
    IN  IF avg_above_075(answered) /\ last \in DOMAIN escalate_map THEN escalate_map[last]
        ELSE IF avg_below_040(answered) /\ last \in DOMAIN descend_map THEN descend_map[last]
        ELSE last

caps == [beginner |-> 4, intermediate |-> 3, hard |-> 3]

\* The override loop run over hard, intermediate, beginner
first_with_quota_reversed(answered, desired) ==
    LET open == {i \in DOMAIN LEVEL_ORDER :
                    counts(answered, LEVEL_ORDER[i]) < caps[LEVEL_ORDER[i]]}
    IN  IF open = {} THEN desired
        ELSE LEVEL_ORDER[CHOOSE i \in open : \A j \in open : i >= j]

\* The first level of beginner, intermediate, hard with counts[lvl] < caps[lvl];
\* `desired` when the loop ends without a break.
first_with_quota(answered, desired) ==
    LET open == {i \in DOMAIN LEVEL_ORDER :
                    counts(answered, LEVEL_ORDER[i]) < caps[LEVEL_ORDER[i]]}
    IN  IF open = {} THEN desired
        ELSE LEVEL_ORDER[CHOOSE i \in open : \A j \in open : i <= j]

\* desired after the distribution caps are enforced, for a desired level that
\* is a key of caps
capped_level(answered, desired) ==
    IF counts(answered, desired) >= caps[desired] THEN first_with_quota(answered, desired)
    ELSE desired

\* candidates without the filter on the level
candidates_any_level(pool, answered, desired) ==
    {q \in Range(pool) : q.question_text \notin used_texts(answered)}

\* candidates, as the set of pool entries the shuffled list can start with
candidates(pool, answered, desired) ==
    LET unused == {q \in Range(pool) : q.question_text \notin used_texts(answered)}
        of_level == {q \in unused : q.level = desired}
    IN  IF of_level # {} THEN of_level ELSE unused

\* get_adaptive_questions with the completion guard one answer early
get_adaptive_questions_early_guard(skills, answered, target_total, base_level, rows) ==
    IF Len(answered) >= target_total - 1 THEN {None}
    ELSE LET pool == _build_question_pool(skills, rows)
             desired == desired_level(answered, base_level)
         IN  IF desired \notin DOMAIN caps THEN {KeyError}
             ELSE LET cands == candidates(pool, answered, capped_level(answered, desired))
                  IN  IF cands = {} THEN {None} ELSE cands

\* get_adaptive_questions with the completion guard written `>` for `>=`
get_adaptive_questions_late_guard(skills, answered, target_total, base_level, rows) ==
    IF Len(answered) > target_total THEN {None}
    ELSE LET pool == _build_question_pool(skills, rows)
             desired == desired_level(answered, base_level)
         IN  IF desired \notin DOMAIN caps THEN {KeyError}
             ELSE LET cands == candidates(pool, answered, capped_level(answered, desired))
                  IN  IF cands = {} THEN {None} ELSE cands

\* Everything get_adaptive_questions(skills, answered, target_total,
\* base_level) can return over the table `rows`: a question dictionary, None,
\* or the KeyError that caps[desired] raises for a level that is none of the
\* three tiers.
get_adaptive_questions(skills, answered, target_total, base_level, rows) ==
    IF Len(answered) >= target_total THEN {None}
    ELSE LET pool == _build_question_pool(skills, rows)
             desired == desired_level(answered, base_level)
         IN  IF desired \notin DOMAIN caps THEN {KeyError}
             ELSE LET cands == candidates(pool, answered, capped_level(answered, desired))
                  IN  IF cands = {} THEN {None} ELSE cands

-----------------------------------------------------------------------------
(* interview/answer_evaluation.py: flags and level transitions *)

\* A feature score (coverage, structure, clarity, depth) is a multiple of
\* 1/FeatureScale: FeatureScale is a common multiple of the denominators the
\* features can have (keyword counts up to 3, 4 for the structure parts, 10
\* for the hedge penalty, 15 for the depth, the window limits 30, 40, 50, 180,
\* 220 and 260), so the model's arithmetic on features is exact.
FeatureScale == 8 * 9 * 25 * 11 * 13

\* A composite score is a sum of products of a weight in hundredths and a
\* feature: a multiple of 1/ScoreScale.
ScoreScale == 100 * FeatureScale

\* round(score, 2), in hundredths
round2(score) == (2 * score + FeatureScale) \div (2 * FeatureScale)

\* round(x, 3) of a feature and of a composite score, in thousandths.  A
\* value midway between two thousandths is rounded up here; Python rounds the
\* double, which lies on one side of the midpoint or the other.
round3(x) == (2 * 1000 * x + FeatureScale) \div (2 * FeatureScale)

\* The thousandths of a composite score without rounding
round3_score_cut(score) == (10 * score) \div FeatureScale

round3_score(score) == (2 * 10 * score + FeatureScale) \div (2 * FeatureScale)

\* flag_for_score with `<=` for `<` at the lower threshold
flag_for_score_inclusive(score) ==
    IF 2 * score <= ScoreScale THEN "Easier"
    ELSE IF 5 * score >= 4 * ScoreScale THEN "Harder"
    ELSE "Same"

\* flag_for_score(score) with the default thresholds 0.5 and 0.8
flag_for_score(score) ==
    IF 2 * score < ScoreScale THEN "Easier"
    ELSE IF 5 * score >= 4 * ScoreScale THEN "Harder"
    ELSE "Same"

Max(a, b) == IF a >= b THEN a ELSE b
Min(a, b) == IF a <= b THEN a ELSE b

\* next_level_from_flag without the clamp at the first tier
next_level_from_flag_wrapping(current_level, flag) ==
    LET idx == IF current_level \in Tiers THEN TierIndex(current_level) ELSE 1
    IN  IF flag = "Easier" THEN LEVEL_ORDER[((idx + 1) % Len(LEVEL_ORDER)) + 1]
        ELSE IF flag = "Harder" THEN LEVEL_ORDER[Min(Len(LEVEL_ORDER), idx + 1)]
        ELSE current_level

next_level_from_flag(current_level, flag) ==
    LET idx == IF current_level \in Tiers THEN TierIndex(current_level) ELSE 1
    IN  IF flag = "Easier" THEN LEVEL_ORDER[Max(1, idx - 1)]
        ELSE IF flag = "Harder" THEN LEVEL_ORDER[Min(Len(LEVEL_ORDER), idx + 1)]
        ELSE current_level

-----------------------------------------------------------------------------
(* interview/answer_evaluation.py: tokens, the four features, the composite *)

stopwords ==
    {<<"a">>, <<"a", "n">>, <<"t", "h", "e">>, <<"i", "s">>,
     <<"a", "n", "d">>, <<"o", "r">>, <<"o", "f">>, <<"i", "n">>,
     <<"t", "o">>, <<"f", "o", "r">>, <<"o", "n">>, <<"w", "i", "t", "h">>,
     <<"a", "s">>, <<"b", "y">>, <<"a", "t">>, <<"i", "t">>,
     <<"t", "h", "a", "t">>, <<"t", "h", "i", "s">>, <<"a", "r", "e">>,
     <<"w", "a", "s">>, <<"b", "e">>, <<"f", "r", "o", "m">>, <<"i", "f">>,
     <<"y", "o", "u">>, <<"y", "o", "u", "r">>, <<"c", "a", "n">>,
     <<"w", "i", "l", "l">>, <<"w", "h", "a", "t">>, <<"h", "o", "w">>,
     <<"w", "h", "y">>, <<"i">>, <<"w", "e">>, <<"t", "h", "e", "y">>,
     <<"h", "e">>, <<"s", "h", "e">>}

\* tokenize(text): lower case, punctuation deleted, split on \W+, without
\* the empty strings and the stop words
tokenize(text) ==
    IF Falsy(text) THEN <<>>
    ELSE LET tokens == Runs(RemoveChars(lower(text), Punctuation), WordChars)
         IN  SelectSeq(tokens, LAMBDA t : t \notin stopwords)

\* max(S) and min(S) of a non-empty set of numbers
SetMax(S) == CHOOSE n \in S : \A m \in S : m <= n
SetMin(S) == CHOOSE n \in S : \A m \in S : m >= n

\* Length of the common run of a from i and b from j, within a[..ahi], b[..bhi]
RunLength(a, i, ahi, b, j, bhi) ==
    SetMax({k \in 0..Min(ahi - i + 1, bhi - j + 1) :
               \A d \in 0..(k - 1) : a[i + d] = b[j + d]})

RECURSIVE MatchingChars(_, _, _, _, _, _)
\* SequenceMatcher(None, a, b): the total size of the matching blocks of
\* a[alo..ahi] and b[blo..bhi].  The longest common block is taken, the one
\* starting earliest in a and then earliest in b among the longest, and the
\* pieces on its left and on its right are matched in the same way.  (No
\* character is junk: the automatic junk heuristic needs 200 characters.)
MatchingChars(a, alo, ahi, b, blo, bhi) ==
    IF alo > ahi \/ blo > bhi THEN 0
    ELSE LET blocks == {<<i, j, RunLength(a, i, ahi, b, j, bhi)>> :
                            i \in alo..ahi, j \in blo..bhi}
             k == SetMax({blk[3] : blk \in blocks})
             besti == SetMin({blk[1] : blk \in {x \in blocks : x[3] = k}})
             bestj == SetMin({blk[2] : blk \in {x \in blocks : x[3] = k /\ x[1] = besti}})
         IN  IF k = 0 THEN 0
             ELSE k + MatchingChars(a, alo, besti - 1, b, blo, bestj - 1)
                    + MatchingChars(a, besti + k, ahi, b, bestj + k, bhi)

\* SequenceMatcher(None, a, b).ratio() >= 0.84, the ratio being 2.0 * M / T
\* for M matching characters and T = len(a) + len(b).  For T < 50 the ratio
\* is never 0.84 exactly, so the comparison of the doubles is the comparison
\* of the fractions.
RatioAtLeastThreshold(a, b) ==
    100 * 2 * MatchingChars(a, 1, Len(a), b, 1, Len(b)) >= 84 * (Len(a) + Len(b))

\* A match of equal strings only
_fuzzy_token_hit_exact(user_tokens, term) ==
    IF Falsy(term) THEN FALSE
    ELSE \E i \in DOMAIN user_tokens : user_tokens[i] = strip(lower(term))

\* _fuzzy_token_hit(user_tokens, term, threshold=0.84)
_fuzzy_token_hit(user_tokens, term) ==
    IF Falsy(term) THEN FALSE
    ELSE LET t == strip(lower(term))
         IN  \E i \in DOMAIN user_tokens :
                 \/ user_tokens[i] = t
                 \/ /\ Len(t) > 3
                    /\ Len(user_tokens[i]) > 3
                    /\ RatioAtLeastThreshold(user_tokens[i], t)

\* The characters re.split(r"[\s\-/]+", kw) does not split at
PartChars == Alphabet \ (Whitespace \cup {"-", "/"})

\* _coverage_score(user_ans, correct_keywords); NoText stands for an entry of
\* the list that is no string, which `isinstance(w, str)` leaves out
_coverage_score(user_ans, correct_keywords) ==
    LET tokens == tokenize(user_ans)
        kept == SelectSeq(OrEmptyList(correct_keywords),
                          LAMBDA w : w # NoText /\ strip(w) # <<>>)
        wanted == [i \in DOMAIN kept |-> lower(strip(kept[i]))]
        all_hit(parts) == /\ parts # <<>>
                          /\ \A i \in DOMAIN parts : _fuzzy_token_hit(tokens, parts[i])
        hit(kw) == all_hit(Runs(kw, PartChars)) \/ _fuzzy_token_hit(tokens, kw)
        hits == Cardinality({i \in DOMAIN wanted : hit(wanted[i])})
    IN  IF FalsyList(correct_keywords) THEN 0
        ELSE IF Len(wanted) = 0 THEN 0
        ELSE (hits * FeatureScale) \div Max(1, Len(wanted))

definition_cues ==
    {<<" ", "i", "s", " ", "a", " ">>,
     <<" ", "i", "s", " ", "a", "n", " ">>,
     <<" ", "r", "e", "f", "e", "r", "s", " ", "t", "o", " ">>,
     <<" ", "i", "s", " ", "u", "s", "e", "d", " ", "t", "o", " ">>,
     <<" ", "m", "e", "a", "n", "s", " ">>}
example_cues ==
    {<<"f", "o", "r", " ", "e", "x", "a", "m", "p", "l", "e">>,
     <<"e", ".", "g", ".">>, <<"s", "u", "c", "h", " ", "a", "s">>,
     <<"f", "o", "r", " ", "i", "n", "s", "t", "a", "n", "c", "e">>}
trade_cues ==
    {<<"h", "o", "w", "e", "v", "e", "r">>, <<"b", "u", "t">>,
     <<"v", "e", "r", "s", "u", "s">>, <<"v", "s">>,
     <<"c", "o", "m", "p", "a", "r", "e", "d", " ", "t", "o">>,
     <<"t", "r", "a", "d", "e", "-", "o", "f", "f">>,
     <<"a", "d", "v", "a", "n", "t", "a", "g", "e", "s">>,
     <<"d", "i", "s", "a", "d", "v", "a", "n", "t", "a", "g", "e", "s">>,
     <<"p", "r", "o", "s">>, <<"c", "o", "n", "s">>}

\* _structure_features(user_ans): (definition, example, tradeoff), each 0 or 1
_structure_features(user_ans) ==
    IF Falsy(user_ans) THEN <<0, 0, 0>>
    ELSE LET text == lower(strip(user_ans))
             found(cues, t) == IF \E cue \in cues : IsSubstring(cue, t) THEN 1 ELSE 0
         IN  <<found(definition_cues, FirstN(text, 160)),
               found(example_cues, text),
               found(trade_cues, text)>>

\* struct = 0.5 * def_hit + 0.25 * ex_hit + 0.25 * tr_hit
structure_score(features) ==
    (2 * features[1] + features[2] + features[3]) * (FeatureScale \div 4)

\* The length window of the clarity score
clarity_window(level) ==
    IF level = "beginner" THEN <<30, 180>>
    ELSE IF level = "intermediate" THEN <<40, 220>>
    ELSE <<50, 260>>

hedges ==
    {<<"m", "a", "y", "b", "e">>,
     <<"p", "r", "o", "b", "a", "b", "l", "y">>,
     <<"i", " ", "t", "h", "i", "n", "k">>,
     <<"i", " ", "g", "u", "e", "s", "s">>,
     <<"n", "o", "t", " ", "s", "u", "r", "e">>,
     <<"k", "i", "n", "d", " ", "o", "f">>,
     <<"s", "o", "r", "t", " ", "o", "f">>}

\* length_score of _clarity_conciseness_score for wc words
length_score(wc, low, high) ==
    IF wc <= 0 THEN 0
    ELSE IF wc < low THEN Max(0, (wc * FeatureScale) \div low)
    ELSE IF wc > high
         THEN Max(FeatureScale \div 2,
                  FeatureScale - ((wc - high) * FeatureScale) \div Max(1, high))
    ELSE FeatureScale

\* hedge_penalty = min(0.3, 0.1 * hedge_hits)
hedge_penalty(user_ans) ==
    LET hedge_hits == Cardinality({h \in hedges : IsSubstring(h, lower(user_ans))})
    IN  Min(3, hedge_hits) * (FeatureScale \div 10)

\* _clarity_conciseness_score without the lower clamp of its result
_clarity_conciseness_score_unclamped(user_ans, level) ==
    IF Falsy(user_ans) THEN 0
    ELSE LET wc == Len(Runs(user_ans, WordChars))
             low == clarity_window(level)[1]
             high == clarity_window(level)[2]
         IN  length_score(wc, low, high) - hedge_penalty(user_ans)

\* _clarity_conciseness_score(user_ans, level='beginner')
_clarity_conciseness_score(user_ans, level) ==
    IF Falsy(user_ans) THEN 0
    ELSE LET wc == Len(Runs(user_ans, WordChars))
             low == clarity_window(level)[1]
             high == clarity_window(level)[2]
         IN  Max(0, length_score(wc, low, high) - hedge_penalty(user_ans))

\* _depth_score with the bonus for numbers granted to every answer
_depth_score_numbers_always(user_ans) ==
    LET long_terms == {t \in Range(tokenize(user_ans)) : Len(t) >= 6}
        depth_base == Min(FeatureScale, (Cardinality(long_terms) * FeatureScale) \div 12)
    IN  Min(FeatureScale, (8 * depth_base + 2 * FeatureScale) \div 10)

\* _depth_score(user_ans), for a string
_depth_score(user_ans) ==
    LET long_terms == {t \in Range(tokenize(user_ans)) : Len(t) >= 6}
        depth_base == Min(FeatureScale, (Cardinality(long_terms) * FeatureScale) \div 12)
        has_numbers == IF \E i \in DOMAIN user_ans : user_ans[i] \in Digits THEN 1 ELSE 0
    IN  Min(FeatureScale, (8 * depth_base + 2 * FeatureScale * has_numbers) \div 10)

\* The parameters of composite_answer_score(user_ans, correct_keywords,
\* level='beginner', reference_answer=None)
composite_answer_score_params == {"user_ans", "correct_keywords", "level", "reference_answer"}

\* Weights of coverage, structure, clarity and depth, in hundredths
weights(level) ==
    IF level = "hard" THEN <<40, 20, 15, 25>>
    ELSE IF level = "intermediate" THEN <<45, 18, 17, 20>>
    ELSE <<50, 15, 20, 15>>

\* w_cov * cov + w_struct * struct + w_clarity * clarity + w_depth * depth
weighted_sum(w, cov, struct, clarity, depth) ==
    w[1] * cov + w[2] * struct + w[3] * clarity + w[4] * depth

\* composite_answer_score(user_ans, correct_keywords, level)
composite_answer_score(user_ans, correct_keywords, level) ==
    IF Falsy(user_ans) THEN 0
    ELSE LET cov == _coverage_score(user_ans, correct_keywords)
             struct == structure_score(_structure_features(user_ans))
             clarity == _clarity_conciseness_score(user_ans, level)
             depth == _depth_score(user_ans)
             score == weighted_sum(weights(level), cov, struct, clarity, depth)
         IN  Max(0, Min(ScoreScale, score))

\* composite_breakdown(user_ans, correct_keywords, level), in thousandths
composite_breakdown(user_ans, correct_keywords, level) ==
    LET cov == _coverage_score(OrEmpty(user_ans), OrEmptyList(correct_keywords))
        features == _structure_features(OrEmpty(user_ans))
        struct == structure_score(features)
        clarity == _clarity_conciseness_score(OrEmpty(user_ans), level)
        depth == _depth_score(OrEmpty(user_ans))
        final == weighted_sum(weights(level), cov, struct, clarity, depth)
    IN  [coverage |-> round3(cov),
         structure |-> round3(struct),
         clarity |-> round3(clarity),
         depth |-> round3(depth),
         final |-> round3_score(Max(0, Min(ScoreScale, final))),
         structure_components |->
             [definition |-> features[1], example |-> features[2], tradeoff |-> features[3]]]

-----------------------------------------------------------------------------
(* interview/utils.py: scoring one answer, evaluating an interview *)

Return(v) == [value |-> v]

\* score_single_answer calls composite_answer_score(answer_text,
\* expected_keywords, level=level, pre_tokenized=pre_tokenized): Python raises
\* TypeError for a keyword argument the callee does not declare.
score_single_answer(answer_text, expected_keywords, pre_tokenized, level) ==
    IF {"level", "pre_tokenized"} \subseteq composite_answer_score_params
    THEN Return(composite_answer_score(answer_text, expected_keywords, level))
    ELSE TypeError

RECURSIVE SetToSeq(_)
\* The elements of a finite set in some order
SetToSeq(S) == IF S = {} THEN <<>> ELSE LET x == CHOOSE y \in S : TRUE
                                        IN  <<x>> \o SetToSeq(S \ {x})

RECURSIVE SumOver(_, _)
\* the sum of f over the elements of a sequence
SumOver(seq, f) == IF seq = <<>> THEN 0 ELSE f[Head(seq)] + SumOver(Tail(seq), f)

\* The result of evaluate_user_level for the scores of the entries of
\* level_bank: (per_question, round(avg, 2), overall_flag)
level_result(ids, score) ==
    LET count == Cardinality(Range(ids))
        total == SumOver(ids, score)
        avg == IF count > 0 THEN total \div count ELSE 0
    IN  [per_question |-> [qid \in Range(ids) |->
                              [score |-> round2(score[qid]), flag |-> flag_for_score(score[qid])]],
         avg |-> round2(avg),
         overall_flag |-> flag_for_score(avg)]

\* evaluate_user_level(user_answers, level_bank, use_composite=True, level):
\* level_bank maps str(q.id) to the keywords of q.
evaluate_user_level(user_answers, level_rows, level) ==
    LET ids == [i \in DOMAIN level_rows |-> level_rows[i].id]
    IN  level_result(ids,
            [qid \in Range(ids) |->
                LET q == CHOOSE r \in Range(level_rows) : r.id = qid
                IN  composite_answer_score(Get(user_answers, qid, <<>>), q.keywords, level)])

\* build_flag_record, without the user id, the field and the timestamp
build_flag_record(current_level, per_question, avg_score, overall_flag) ==
    [level |-> current_level, per_question |-> per_question,
     avg_score |-> avg_score, overall_flag |-> overall_flag]

\* The dictionary evaluate_interview_answers returns for the result res of
\* evaluate_user_level
evaluation_summary(current_level, res) ==
    [per_question_scores |-> res.per_question,
     average_score |-> res.avg,
     overall_flag |-> res.overall_flag,
     current_level |-> current_level,
     recommended_next_level |-> next_level_from_flag(current_level, res.overall_flag),
     flag_record |-> build_flag_record(current_level, res.per_question, res.avg,
                                       res.overall_flag)]

\* evaluate_interview_answers(user_id, field, current_level, user_answers)
evaluate_interview_answers(current_level, user_answers, rows) ==
    evaluation_summary(current_level,
        evaluate_user_level(user_answers,
                            SelectSeq(rows, LAMBDA q : q.level = current_level),
                            current_level))

-----------------------------------------------------------------------------
(* interview/utils.py: get_fixed_interview_questions *)

\* A remainder that leaves nothing out
Without_nothing(seq, chosen) == seq

RECURSIVE Without(_, _)
\* [q for q in seq if q not in chosen]
Without(seq, chosen) ==
    IF seq = <<>> THEN <<>>
    ELSE (IF Head(seq) \in Range(chosen) THEN <<>> ELSE <<Head(seq)>>)
         \o Without(Tail(seq), chosen)

\* get_fixed_interview_questions(skills, counts, total) for counts given as
\* a dictionary over the three tiers, in the order beginner, intermediate,
\* hard of its literal
get_fixed_interview_questions(skills, level_counts, total, rows) ==
    LET every == all_questions(skills, rows)
        bucket(lvl) == SelectSeq(every, LAMBDA q : q.level = lvl)
        selected == FirstN(bucket("beginner"), level_counts["beginner"])
                    \o FirstN(bucket("intermediate"), level_counts["intermediate"])
                    \o FirstN(bucket("hard"), level_counts["hard"])
        filled == IF Len(selected) < total
                  THEN selected \o FirstN(Without(every, selected), total - Len(selected))
                  ELSE selected
    IN  FirstN(filled, total)

-----------------------------------------------------------------------------
(* interview/views.py: the interview views *)

\* An update that keeps the entries the dictionary already has
PutAll_keep(d, entries) ==
    [x \in DOMAIN d \cup DOMAIN entries |-> IF x \in DOMAIN d THEN d[x] ELSE entries[x]]

\* d.update(entries)
PutAll(d, entries) ==
    [x \in DOMAIN d \cup DOMAIN entries |-> IF x \in DOMAIN entries THEN entries[x] ELSE d[x]]

\* Answer texts a user submits: the sequence of the words of the text
AnswerTexts == {KwMysql}

AdaptiveTotal == 9

\* An unhandled exception: Django answers 500 and the session middleware
\* does not save the session, so nothing the request wrote to it remains.
ServerError ==
    /\ response' = "500"
    /\ UNCHANGED <<session, saved, profile_level>>

\* start_interview_view, adaptive branch (any mode but 'fixed')
StartAdaptive ==
    /\ Len(saved) < MaxSaved
    /\ \E got \in get_adaptive_questions(resume_skills, <<>>, AdaptiveTotal, profile_level, bank) :
          \* `except Exception: next_q = None`
          LET next_q == IF Raised(got) THEN None ELSE got
          IN  IF next_q = None
              THEN /\ response' = "redirect:interview_dashboard"
                   /\ UNCHANGED session
              ELSE /\ session' = PutAll(session,
                          [interview_mode |-> "adaptive",
                           skills |-> resume_skills,
                           interview_level |-> profile_level,
                           target_total |-> AdaptiveTotal,
                           answered |-> <<>>,
                           current_question |-> next_q,
                           current_question_index |-> 0,
                           scored_answers |-> <<>>,
                           instructions_pending |-> TRUE])
                   /\ response' = "redirect:interview_instructions"
    /\ UNCHANGED <<bank, resume_skills, profile_level, saved, probe, probe_result>>

\* start_interview_view, ?mode=fixed
StartFixed ==
    /\ Len(saved) < MaxSaved
    /\ LET questions == get_fixed_interview_questions(resume_skills,
                            [beginner |-> 3, intermediate |-> 3, hard |-> 3], 9, bank)
       IN  IF questions = <<>>
           THEN /\ response' = "render:dashboard_new"
                /\ UNCHANGED session
           ELSE /\ session' = PutAll(session,
                       [interview_questions |-> questions,
                        current_question_index |-> 0,
                        user_answers |-> <<>>,
                        interview_level |-> profile_level,
                        instructions_pending |-> TRUE])
                /\ response' = "redirect:interview_instructions"
    /\ UNCHANGED <<bank, resume_skills, profile_level, saved, probe, probe_result>>

\* settings_view: a POST stores the level of the form when it is one of
\* 'beginner', 'intermediate', 'advanced' and redirects to the settings page;
\* any other request renders the page.
SettingsView(method, new_level) ==
    /\ IF method = "POST"
       THEN /\ profile_level' =
                   IF new_level \in {"beginner", "intermediate", "advanced"}
                   THEN new_level
                   ELSE profile_level
            /\ response' = "redirect:settings"
       ELSE /\ response' = "render:settings"
            /\ UNCHANGED profile_level
    /\ UNCHANGED <<bank, resume_skills, session, saved, probe, probe_result>>

\* interview_instructions_view
InstructionsView(method) ==
    /\ IF ~Get(session, "instructions_pending", FALSE)
       THEN /\ response' = "redirect:interview_dashboard"
            /\ UNCHANGED session
       ELSE IF method = "POST"
       THEN /\ session' = Put(session, "instructions_pending", FALSE)
            /\ response' = "redirect:interview_question"
       ELSE /\ response' = "render:instructions"
            /\ UNCHANGED session
    /\ UNCHANGED <<bank, resume_skills, profile_level, saved, probe, probe_result>>

\* The InterviewSession row saved when an interview completes; avg_score is
\* round(avg_score, 2), in hundredths
SessionRow(scored_answers, avg_score, base_level, eval_results) ==
    [answers |-> scored_answers,
     score |-> avg_score,
     current_level |-> base_level,
     recommended_next_level |-> eval_results.recommended_next_level,
     evaluation_flag |-> eval_results.overall_flag,
     flag_records |-> eval_results.flag_record]

AdaptiveKeys ==
    {"interview_mode", "skills", "target_total", "answered", "current_question",
     "current_question_index", "scored_answers", "interview_level"}

\* interview_question_view, adaptive branch: the interview is complete and
\* eval_results is what evaluate_interview_answers returned
AdaptiveComplete(s2, answered, scored_answers, base_level, eval_results) ==
    \* total_score / len(answered), of scores in hundredths
    LET avg_score == (2 * SumScores(answered) + Len(answered)) \div (2 * Len(answered))
    IN  /\ saved' = Append(saved, SessionRow(scored_answers, avg_score,
                                             base_level, eval_results))
        /\ profile_level' =
               IF eval_results.recommended_next_level # base_level
               THEN eval_results.recommended_next_level
               ELSE profile_level
        /\ session' = Del(s2, AdaptiveKeys)
        /\ response' = "redirect:interview_results"

\* interview_question_view, adaptive branch: the answer is recorded with its
\* score, then the interview is completed or the next question is fetched
AdaptiveRecord(answer_text, s, current_q, score) ==
    LET skills == Get(s, "skills", <<>>)
        base_level == Get(s, "interview_level", "beginner")
        target_total == Get(s, "target_total", 9)
        answered == Append(Get(s, "answered", <<>>),
                           [question_text |-> current_q.question_text,
                            level |-> current_q.level,
                            score |-> round2(score)])
        scored_answers ==
            Put(Get(s, "scored_answers", <<>>), current_q.question_text,
                [answer |-> answer_text,
                 score |-> round2(score),
                 keywords |-> current_q.keywords,
                 tokens |-> Get(current_q, "tokens", None),
                 level |-> current_q.level])
        s2 == PutAll(s, [answered |-> answered,
                         scored_answers |-> scored_answers,
                         current_question_index |-> Len(answered)])
    IN  IF Len(answered) >= target_total
        THEN AdaptiveComplete(s2, answered, scored_answers, base_level,
                 evaluate_interview_answers(
                     base_level,
                     [qt \in DOMAIN scored_answers |-> scored_answers[qt].answer],
                     bank))
        ELSE \E next_q \in get_adaptive_questions(skills, answered, target_total,
                                                 base_level, bank) :
                 IF Raised(next_q) THEN ServerError
                 ELSE /\ session' = Put(s2, "current_question", next_q)
                      /\ response' = "redirect:interview_question"
                      /\ UNCHANGED <<saved, profile_level>>

\* `try: score = score_single_answer(...)  except Exception: score = 0.0`
ScoreOrZero(got) == IF Raised(got) THEN 0 ELSE got.value

\* interview_question_view, adaptive branch, once a current question is known:
\* `s` is the session as the request has written it so far.
AdaptiveStep(method, answer_text, s, current_q) ==
    IF method = "POST"
    THEN AdaptiveRecord(answer_text, s, current_q,
             ScoreOrZero(score_single_answer(answer_text, current_q.keywords,
                                             Get(current_q, "tokens", None),
                                             current_q.level)))
    ELSE /\ session' = s
         /\ response' = "render:question_page"
         /\ UNCHANGED <<saved, profile_level>>

\* interview_question_view, fixed branch: the stored interview with its
\* scores, eval_results being what evaluate_interview_answers returned
FixedSave(s2, scored_answers, avg_score, base_level, eval_results) ==
    /\ saved' = Append(saved, SessionRow(scored_answers, avg_score,
                                         base_level, eval_results))
    /\ profile_level' =
           IF eval_results.recommended_next_level # base_level
           THEN eval_results.recommended_next_level
           ELSE profile_level
    /\ session' = Del(s2, {"interview_questions", "current_question_index",
                           "user_answers", "interview_level"})
    /\ response' = "redirect:interview_results"

\* interview_question_view, fixed branch: the interview is complete and
\* scores[i] is what score_single_answer returned for question i, in the
\* scoring loop whose exceptions nothing catches
FixedComplete(s2, questions, scores) ==
    IF \E i \in DOMAIN questions : Raised(scores[i])
    THEN ServerError
    ELSE LET total_score == SumOver([i \in DOMAIN questions |-> i],
                                    [i \in DOMAIN questions |-> scores[i].value])
             avg_score == round2(total_score \div Len(questions))
             scored_answers ==
                 [qt \in {questions[i].question_text : i \in DOMAIN questions} |->
                     LET i == CHOOSE j \in DOMAIN questions :
                                  /\ questions[j].question_text = qt
                                  /\ \A k \in DOMAIN questions :
                                        questions[k].question_text = qt => k <= j
                     IN  [answer |-> Get(s2.user_answers, qt, <<>>),
                          score |-> round2(scores[i].value),
                          keywords |-> questions[i].keywords,
                          tokens |-> Get(questions[i], "tokens", None),
                          level |-> questions[i].level]]
             base_level == Get(session, "interview_level", "beginner")
         IN  FixedSave(s2, scored_answers, avg_score, base_level,
                 evaluate_interview_answers(
                     base_level,
                     [qt \in DOMAIN scored_answers |-> scored_answers[qt].answer],
                     bank))

\* interview_question_view, fixed branch
FixedStep(method, answer_text) ==
    LET questions == Get(session, "interview_questions", <<>>)
        current_index == Get(session, "current_question_index", 0)
        user_answers == Get(session, "user_answers", <<>>)
    IN  IF questions = <<>> \/ current_index >= Len(questions)
        THEN /\ response' = "redirect:interview_dashboard"
             /\ UNCHANGED <<session, saved, profile_level>>
        ELSE IF method = "POST"
        THEN LET question == questions[current_index + 1]
                 next_index == current_index + 1
                 s2 == PutAll(session,
                              [user_answers |-> Put(user_answers, question.question_text,
                                                    answer_text),
                               current_question_index |-> next_index])
             IN  IF next_index >= Len(questions)
                 THEN FixedComplete(s2, questions,
                          [i \in DOMAIN questions |->
                              score_single_answer(
                                  Get(s2.user_answers, questions[i].question_text, <<>>),
                                  questions[i].keywords,
                                  Get(questions[i], "tokens", None),
                                  questions[i].level)])
                 ELSE /\ session' = s2
                      /\ response' = "redirect:interview_question"
                      /\ UNCHANGED <<saved, profile_level>>
        ELSE /\ response' = "render:question_page"
             /\ UNCHANGED <<session, saved, profile_level>>

\* The question view without its check of instructions_pending
QuestionView_ungated(method, answer_text) ==
    /\ IF Get(session, "interview_mode", "fixed") = "adaptive"
       THEN IF Get(session, "current_question", None) # None
            THEN AdaptiveStep(method, answer_text, session, session.current_question)
            ELSE /\ response' = "redirect:interview_dashboard"
                 /\ UNCHANGED <<session, saved, profile_level>>
       ELSE FixedStep(method, answer_text)
    /\ UNCHANGED <<bank, resume_skills, probe, probe_result>>

\* interview_question_view
QuestionView(method, answer_text) ==
    /\ IF Get(session, "instructions_pending", FALSE)
       THEN /\ response' = "redirect:interview_instructions"
            /\ UNCHANGED <<session, saved, profile_level>>
       ELSE IF Get(session, "interview_mode", "fixed") = "adaptive"
       THEN IF Get(session, "current_question", None) # None
            THEN AdaptiveStep(method, answer_text, session, session.current_question)
            ELSE \* no current question: fetch one
                 \E got \in get_adaptive_questions(Get(session, "skills", <<>>),
                                                   Get(session, "answered", <<>>),
                                                   Get(session, "target_total", 9),
                                                   Get(session, "interview_level", "beginner"),
                                                   bank) :
                     IF Raised(got) THEN ServerError
                     ELSE IF got = None
                     THEN /\ response' = "redirect:interview_dashboard"
                          /\ UNCHANGED <<session, saved, profile_level>>
                     ELSE AdaptiveStep(method, answer_text,
                                       Put(session, "current_question", got), got)
       ELSE FixedStep(method, answer_text)
    /\ UNCHANGED <<bank, resume_skills, probe, probe_result>>

-----------------------------------------------------------------------------
(* The interview of one user *)

Methods == {"GET", "POST"}

NoProbe == [called |-> FALSE]

Init ==
    /\ bank \in Banks
    /\ resume_skills \in SkillLists
    /\ profile_level \in Tiers
    /\ session = <<>>
    /\ saved = <<>>
    /\ response = "none"
    /\ probe = NoProbe
    /\ probe_result = None

Next ==
    \/ StartAdaptive
    \/ \E method \in Methods : InstructionsView(method)
    \/ \E method \in Methods, answer_text \in AnswerTexts : QuestionView(method, answer_text)

Spec == Init /\ [][Next]_vars

-----------------------------------------------------------------------------
(* One user who changes settings and starts interviews in both modes *)

\* Levels the settings form can post
FormLevels == Tiers \cup {"advanced"}

\* The bank with one question of each tier
PortalBanks == {MakeBank(1, 1, 1, FALSE)}

\* A new profile has the level 'beginner' (models.py: current_level default)
PortalInit ==
    /\ bank \in PortalBanks
    /\ resume_skills = <<>>
    /\ profile_level = "beginner"
    /\ session = <<>>
    /\ saved = <<>>
    /\ response = "none"
    /\ probe = NoProbe
    /\ probe_result = None

PortalNext ==
    \/ \E method \in Methods, new_level \in FormLevels : SettingsView(method, new_level)
    \/ StartAdaptive
    \/ StartFixed
    \/ \E method \in Methods : InstructionsView(method)
    \/ \E method \in Methods, answer_text \in AnswerTexts : QuestionView(method, answer_text)

SpecPortal == PortalInit /\ [][PortalNext]_vars

-----------------------------------------------------------------------------
(* Two users, each with a browser session of their own *)

Users == {1, 2}

\* Every request is handed the session of the first user
request_session_shared(sessions, u) == sessions[1]

\* request.session of a request of user u: the session stored under the key
\* of the cookie of that user's browser
request_session(sessions, u) == sessions[u]

\* `session` and `profile_level` are the session and the profile of the user
\* whose requests are being served, probe.user; probe.sessions and
\* probe.levels hold what is stored for each user when the user's last
\* request was answered.  The resumes of both users list the same skills.
SessionsInit ==
    /\ bank \in PortalBanks
    /\ resume_skills = <<>>
    /\ \E l1 \in Tiers, l2 \in Tiers :
          /\ profile_level = l1
          /\ probe = [user |-> 1, sessions |-> << <<>>, <<>> >>, levels |-> <<l1, l2>>]
    /\ session = <<>>
    /\ saved = <<>>
    /\ response = "none"
    /\ probe_result = None

\* The next request comes from user u, not the one served so far: the session
\* and the profile of the user served so far are as that user's last request
\* left them, and the views now work on request.session and the profile of u.
NextRequest(u) ==
    /\ u # probe.user
    /\ LET sessions == [probe.sessions EXCEPT ![probe.user] = session]
           levels == [probe.levels EXCEPT ![probe.user] = profile_level]
       IN  /\ probe' = [user |-> u, sessions |-> sessions, levels |-> levels]
           /\ session' = request_session(sessions, u)
           /\ profile_level' = levels[u]
    /\ response' = "none"
    /\ UNCHANGED <<bank, resume_skills, saved, probe_result>>

SessionsNext ==
    \/ \E u \in Users : NextRequest(u)
    \/ StartAdaptive
    \/ \E method \in Methods : InstructionsView(method)
    \/ \E method \in Methods, answer_text \in AnswerTexts : QuestionView(method, answer_text)

SpecSessions == SessionsInit /\ [][SessionsNext]_vars

-----------------------------------------------------------------------------
(* Direct calls of get_adaptive_questions *)

\* Scores of the last two answers, in hundredths
ProbeScores == {0, 10, 40, 70, 75, 100}

\* Levels an answered item can carry; "expert" is none of the tiers
ProbeLevels == Tiers \cup {"expert"}

\* Base levels; "advanced" is the third level the settings form accepts
ProbeBaseLevels == Tiers \cup {"advanced"}

\* How many answers of a tier came before the last one: none, one fewer than
\* its quota, or its quota
BodyCounts(lvl) == {0, caps[lvl] - 1, caps[lvl]}

AnsweredItem(text, lvl, score) == [question_text |-> text, level |-> lvl, score |-> score]

\* n answered items of a tier, with the texts of the first n rows of the tier
Block(lvl, n) == [k \in 1..n |-> AnsweredItem(10 * TierIndex(lvl) + k, lvl, 50)]

\* cb beginner, ci intermediate and ch hard answers, the last of them scored s1
Body(cb, ci, ch, s1) ==
    LET items == Block("beginner", cb) \o Block("intermediate", ci) \o Block("hard", ch)
    IN  [k \in DOMAIN items |->
            IF k = Len(items) THEN [items[k] EXCEPT !.score = s1] ELSE items[k]]

\* The text of the next unused row of a tier after n answers of it
NextText(lvl, n) == IF lvl \in Tiers THEN 10 * TierIndex(lvl) + n + 1 ELSE 91

Trails ==
    {Body(cb, ci, ch, s1) :
        cb \in BodyCounts("beginner"), ci \in BodyCounts("intermediate"),
        ch \in BodyCounts("hard"), s1 \in ProbeScores}
    \cup
    {Append(Body(cb, ci, ch, s1), AnsweredItem(NextText(lvl, counts(Body(cb, ci, ch, s1), lvl)), lvl, s2)) :
        cb \in BodyCounts("beginner"), ci \in BodyCounts("intermediate"),
        ch \in BodyCounts("hard"), s1 \in ProbeScores,
        lvl \in ProbeLevels, s2 \in ProbeScores}

ProbeBanks == {MakeBank(4, 3, MaxHard, dup) : dup \in BOOLEAN}

ProbeInit ==
    /\ bank \in ProbeBanks
    /\ resume_skills \in SkillLists
    /\ profile_level = "beginner"
    /\ session = <<>>
    /\ saved = <<>>
    /\ response = "none"
    /\ probe \in {[called |-> TRUE, answered |-> a, base_level |-> b] :
                      a \in Trails, b \in ProbeBaseLevels}
    /\ probe_result = [pending |-> TRUE]

\* next_q = get_adaptive_questions(skills, answered, target_total=9, base_level)
CallSelector ==
    /\ probe_result = [pending |-> TRUE]
    /\ probe_result' \in get_adaptive_questions(resume_skills, probe.answered, AdaptiveTotal,
                                                probe.base_level, bank)
    /\ UNCHANGED <<bank, resume_skills, profile_level, session, saved, response, probe>>

ProbeNext == CallSelector

SpecSelector == ProbeInit /\ [][ProbeNext]_vars

-----------------------------------------------------------------------------
(* Direct calls of flag_for_score and next_level_from_flag *)

\* Scores from 0 to 1 in steps of 0.01, and the scores just below 0.5 and 0.8
FlagScores ==
    {k * (ScoreScale \div 100) : k \in 0..100}
    \cup {ScoreScale \div 2 - 1, 4 * (ScoreScale \div 5) - 1}

FlagsInit ==
    /\ bank = <<>>
    /\ resume_skills = <<>>
    /\ profile_level = "beginner"
    /\ session = <<>>
    /\ saved = <<>>
    /\ response = "none"
    /\ probe \in {[called |-> FALSE, score |-> x, current_level |-> lvl] :
                      x \in FlagScores, lvl \in ProbeLevels}
    /\ probe_result = [pending |-> TRUE]

\* overall_flag = flag_for_score(avg);
\* next_level = next_level_from_flag(current_level, overall_flag)
CallFlags ==
    /\ probe_result = [pending |-> TRUE]
    /\ LET overall_flag == flag_for_score(probe.score)
       IN  probe_result' =
               [overall_flag |-> overall_flag,
                next_level |-> next_level_from_flag(probe.current_level, overall_flag)]
    /\ UNCHANGED <<bank, resume_skills, profile_level, session, saved, response, probe>>

FlagsNext == CallFlags

SpecFlags == FlagsInit /\ [][FlagsNext]_vars

-----------------------------------------------------------------------------
(* Direct calls of composite_answer_score and composite_breakdown *)

MaxFragments == 2       \* fragments of an answer

\* The fragments answers are made of: a keyword, a phrase with stop words,
\* a word with punctuation and a hedge, a long word, a definition, and an
\* example with a number, a comparison and capitals
Fragments ==
    {<<"m", "y", "s", "q", "l">>,
     <<"t", "h", "e", " ", "s", "t", "a", "t", "e", " ", "o", "f", " ", "t", "h", "e", " ", "a", "r", "t">>,
     <<"c", "+", "+", " ", "m", "a", "y", "b", "e">>,
     <<"d", "a", "t", "a", "b", "a", "s", "e">>,
     <<"i", "t", " ", "i", "s", " ", "a", " ", "t", "o", "o", "l">>,
     <<"e", ".", "g", ".", " ", "3", " ", "b", "u", "t", " ", "S", "Q", "L">>}

RECURSIVE FragmentLists(_)
\* The lists of n fragments
FragmentLists(n) ==
    IF n = 0 THEN {<<>>}
    ELSE {<<f>> \o rest : f \in Fragments, rest \in FragmentLists(n - 1)}

\* The answers: None, the empty string, and up to MaxFragments fragments
\* separated by a space
ScoringAnswers ==
    {NoText} \cup {Join(fs, <<" ">>) : fs \in UNION {FragmentLists(n) : n \in 0..MaxFragments}}

\* The keyword lists: None, the empty list, and lists of one or two
\* keywords, among them a blank one, one that is no string and one made of a
\* separator only
ScoringKeywords ==
    {NoList,
     <<>>,
     <<<<"m", "y", "s", "q", "l">>>>,
     <<<<"s", "t", "a", "t", "e", " ", "o", "f", " ", "t", "h", "e", " ", "a", "r", "t">>>>,
     <<<<"c", "+", "+">>>>,
     <<<<"d", "a", "t", "a", "b", "a", "s", "e", "s">>>>,
     <<<<" ", " ">>>>,
     <<<<"m", "y", "s", "q", "l">>, <<"o", "s">>>>,
     <<<<"m", "y", "s", "q", "l">>, <<"s", "t", "a", "t", "e", "-", "a", "r", "t">>>>,
     <<NoText, <<"m", "y", "s", "q", "l">>>>,
     <<<<"-">>, <<"d", "a", "t", "a", "b", "a", "s", "e", "s">>>>}

ScoringInit ==
    /\ bank = <<>>
    /\ resume_skills = <<>>
    /\ profile_level = "beginner"
    /\ session = <<>>
    /\ saved = <<>>
    /\ response = "none"
    /\ probe \in {[called |-> FALSE, user_ans |-> a, correct_keywords |-> kws, level |-> lvl] :
                      a \in ScoringAnswers, kws \in ScoringKeywords, lvl \in ProbeLevels}
    /\ probe_result = [pending |-> TRUE]

\* composite_answer_score(user_ans, correct_keywords, level=level) and
\* composite_breakdown(user_ans, correct_keywords, level)
CallScoring ==
    /\ probe_result = [pending |-> TRUE]
    /\ probe_result' =
           [score |-> composite_answer_score(probe.user_ans, probe.correct_keywords, probe.level),
            breakdown |-> composite_breakdown(probe.user_ans, probe.correct_keywords, probe.level)]
    /\ UNCHANGED <<bank, resume_skills, profile_level, session, saved, response, probe>>

ScoringNext == CallScoring

SpecScoring == ScoringInit /\ [][ScoringNext]_vars

-----------------------------------------------------------------------------
(* The length component of _clarity_conciseness_score, by word count *)

MaxWords == 521         \* words of an answer

ClarityInit ==
    /\ bank = <<>>
    /\ resume_skills = <<>>
    /\ profile_level = "beginner"
    /\ session = <<>>
    /\ saved = <<>>
    /\ response = "none"
    /\ probe \in {[called |-> FALSE, words |-> n, level |-> lvl] :
                      n \in 0..MaxWords, lvl \in ProbeLevels}
    /\ probe_result = [pending |-> TRUE]

\* _clarity_conciseness_score(user_ans, level) from `wc = len(words)` to the
\* assignment of length_score, for an answer of probe.words words
CallClarity ==
    /\ probe_result = [pending |-> TRUE]
    /\ probe_result' = [length_score |-> length_score(probe.words,
                                                      clarity_window(probe.level)[1],
                                                      clarity_window(probe.level)[2])]
    /\ UNCHANGED <<bank, resume_skills, profile_level, session, saved, response, probe>>

ClarityNext == CallClarity

SpecClarity == ClarityInit /\ [][ClarityNext]_vars

-----------------------------------------------------------------------------
(* Direct calls of get_fixed_interview_questions *)

MaxTier == 5            \* rows of one tier in the bank of a fixed selection

\* A second row with the content of the first beginner row
TwinRow == QuestionRow(150, 10 * TierIndex("beginner") + 1, "beginner", <<KwMysql>>)

\* Banks with up to MaxTier rows of each tier: as they are, with the question
\* that was entered a second time as a hard one, and with the row that was
\* entered twice
FixedBanks ==
    {MakeBank(nb, ni, nh, dup) :
        nb \in 0..MaxTier, ni \in 0..MaxTier, nh \in 0..MaxTier, dup \in BOOLEAN}
    \cup {MakeBank(nb, ni, nh, FALSE) \o <<TwinRow>> :
            nb \in 1..MaxTier, ni \in 0..MaxTier, nh \in 0..MaxTier}

\* The counts: the default of the function, those of start_interview_view,
\* and counts that leave a tier out
FixedCounts ==
    {[beginner |-> 4, intermediate |-> 3, hard |-> 3],
     [beginner |-> 3, intermediate |-> 3, hard |-> 3],
     [beginner |-> 1, intermediate |-> 2, hard |-> 0]}

\* sum(counts.values())
SumCounts(level_counts) ==
    level_counts["beginner"] + level_counts["intermediate"] + level_counts["hard"]

\* The totals: the sum of the counts, which is also what an omitted total
\* stands for, one less and one more
FixedTotals(level_counts) ==
    {SumCounts(level_counts) - 1, SumCounts(level_counts), SumCounts(level_counts) + 1}

FixedInit ==
    /\ bank \in FixedBanks
    /\ resume_skills \in SkillLists
    /\ profile_level = "beginner"
    /\ session = <<>>
    /\ saved = <<>>
    /\ response = "none"
    /\ probe \in {[called |-> FALSE, level_counts |-> c, total |-> t] :
                      c \in FixedCounts, t \in UNION {FixedTotals(d) : d \in FixedCounts}}
    /\ probe.total \in FixedTotals(probe.level_counts)
    /\ probe_result = [pending |-> TRUE]

\* questions = get_fixed_interview_questions(skills, counts=counts, total=total)
CallFixed ==
    /\ probe_result = [pending |-> TRUE]
    /\ probe_result' =
           [questions |-> get_fixed_interview_questions(resume_skills, probe.level_counts,
                                                        probe.total, bank)]
    /\ UNCHANGED <<bank, resume_skills, profile_level, session, saved, response, probe>>

FixedNext == CallFixed

SpecFixed == FixedInit /\ [][FixedNext]_vars

-----------------------------------------------------------------------------
(* What the claims speak of *)

\* The answered list of the session
Answered == Get(session, "answered", <<>>)

\* The outstanding question of the session, as a list of at most one question
Outstanding ==
    IF "current_question" \in DOMAIN session /\ session.current_question # None
    THEN <<session.current_question>>
    ELSE <<>>

\* An adaptive interview is in progress
InAdaptive == Get(session, "interview_mode", "fixed") = "adaptive"

\* The pool the sessions of this user draw from
SessionPool == _build_question_pool(resume_skills, bank)

\* The question texts of a list of questions or answered items
TextsOf(items) == {items[i].question_text : i \in DOMAIN items}

\* The answered items followed by the outstanding question
Trail == [i \in 1..(Len(Answered) + Len(Outstanding)) |->
             IF i <= Len(Answered)
             THEN [question_text |-> Answered[i].question_text, level |-> Answered[i].level]
             ELSE [question_text |-> Outstanding[1].question_text,
                   level |-> Outstanding[1].level]]

\* The quotas the specification states
Quota == [beginner |-> 4, intermediate |-> 3, hard |-> 3]

\* How many items of a list carry a level
CountOf(items, lvl) == Cardinality({i \in DOMAIN items : items[i].level = lvl})

\* Every tier with quota left still has a pool question that was not answered
NoTierStarved ==
    \A lvl \in Tiers :
        CountOf(Answered, lvl) < Quota[lvl]
            => \E i \in DOMAIN SessionPool :
                  /\ SessionPool[i].level = lvl
                  /\ SessionPool[i].question_text \notin TextsOf(Answered)

\* The answered list continued to n items with answers to other questions
PadTo(items, n) ==
    items \o [k \in 1..(n - Len(items)) |-> AnsweredItem(90 + k, "beginner", 0)]

-----------------------------------------------------------------------------
\* C1: in an adaptive session len(answered) <= target_total always holds, the
\* saved record of a session holds at most target_total answers, and once
\* the answered list holds target_total items or more get_adaptive_questions
\* returns None whatever the pool still contains.
C1_AnsweredWithinTotal ==
    /\ Len(Answered) <= Get(session, "target_total", AdaptiveTotal)
    /\ \A i \in DOMAIN saved : Cardinality(DOMAIN saved[i].answers) <= AdaptiveTotal
    /\ \A n \in {AdaptiveTotal, AdaptiveTotal + 1} :
          get_adaptive_questions(Get(session, "skills", resume_skills), PadTo(Answered, n),
                                 AdaptiveTotal, Get(session, "interview_level", profile_level),
                                 bank) = {None}

\* A session recorded its target_total-th answer: it was saved with
\* target_total answers and its keys were cleared.
C1_Witness ==
    /\ saved # <<>>
    /\ Cardinality(DOMAIN saved[1].answers) = AdaptiveTotal
    /\ ~InAdaptive
    /\ response = "redirect:interview_results"

-----------------------------------------------------------------------------
-----------------------------------------------------------------------------
\* C3 as stated: with a pool of at least target_total questions the session
\* has an outstanding question whenever fewer than target_total answers are
\* recorded, ends at the target_total-th answer, and saves exactly
\* target_total answers.
C3_PoolOfNineCompletes ==
    /\ (InAdaptive /\ Len(SessionPool) >= AdaptiveTotal
           /\ "current_question" \in DOMAIN session /\ Len(Answered) < AdaptiveTotal)
          => Outstanding # <<>>
    /\ Len(Answered) < AdaptiveTotal
    /\ \A i \in DOMAIN saved : Cardinality(DOMAIN saved[i].answers) = AdaptiveTotal

\* C3 amended: the same for a pool of at least target_total questions with
\* pairwise distinct texts.
C3_NineDistinctTextsComplete ==
    /\ (InAdaptive /\ Cardinality(TextsOf(SessionPool)) >= AdaptiveTotal
           /\ "current_question" \in DOMAIN session /\ Len(Answered) < AdaptiveTotal)
          => Outstanding # <<>>
    /\ Len(Answered) < AdaptiveTotal
    /\ \A i \in DOMAIN saved : Cardinality(DOMAIN saved[i].answers) = AdaptiveTotal

\* A session over a pool of nine distinct texts has recorded eight answers
\* and holds its ninth question.
C3_Witness ==
    /\ InAdaptive
    /\ Cardinality(TextsOf(SessionPool)) >= AdaptiveTotal
    /\ Len(Answered) = AdaptiveTotal - 1
    /\ Outstanding # <<>>

-----------------------------------------------------------------------------
\* C4: the question texts of the answered items and of the outstanding
\* question of an adaptive session are pairwise distinct.
C4_NoRepeatedText ==
    \A i, j \in DOMAIN Trail : i # j => Trail[i].question_text # Trail[j].question_text

\* The pool holds a hard row with the text of an answered beginner question,
\* and the session holds a hard question.
C4_Witness ==
    /\ resume_skills = <<>>
    /\ \E i \in DOMAIN bank : bank[i] = DuplicateRow
    /\ DuplicateRow.question_text \in TextsOf(Answered)
    /\ Outstanding # <<>>
    /\ Outstanding[1].level = "hard"

-----------------------------------------------------------------------------
\* C5: score_single_answer returns a value in [0,1] and never raises for the
\* keywords and level of the question a session holds, so that the score the
\* view records is the composite score and never its fallback 0.0.
C5_ScoringNeverRaises ==
    \A k \in DOMAIN Outstanding : \A a \in AnswerTexts :
        LET q == Outstanding[k]
            got == score_single_answer(a, q.keywords, Get(q, "tokens", None), q.level)
        IN  IF Raised(got) THEN FALSE ELSE got.value \in 0..ScoreScale

-----------------------------------------------------------------------------
(* The selector call under examination *)

ProbeAnswered == IF probe.called THEN probe.answered ELSE <<>>
ProbeBase == IF probe.called THEN probe.base_level ELSE "beginner"

\* The call has returned a question
ProbeGotQuestion == "question_text" \in DOMAIN probe_result

\* The call has returned
ProbeReturned == probe.called /\ "pending" \notin DOMAIN probe_result

\* The pool of the call
ProbePool == _build_question_pool(resume_skills, bank)

\* A list of questions holds one of tier lvl whose text was not answered
HasUnused(questions, lvl) ==
    \E i \in DOMAIN questions :
        /\ questions[i].level = lvl
        /\ questions[i].question_text \notin TextsOf(ProbeAnswered)

\* The tier of the last answered item
LastTier == ProbeAnswered[Len(ProbeAnswered)].level

\* Twice the mean, in hundredths, of the last two scores (of the single one)
TwiceMean ==
    LET n == Len(ProbeAnswered)
    IN  IF n = 1 THEN 2 * ProbeAnswered[1].score
        ELSE ProbeAnswered[n - 1].score + ProbeAnswered[n].score

\* The mean the program computes is below 0.40: the exact mean is, or the two
\* scores add up to 0.7999999999999999 in binary64 arithmetic
MeanBelow040 ==
    \/ TwiceMean < 80
    \/ /\ Len(ProbeAnswered) >= 2
       /\ TwiceMean = 80
       /\ ProbeAnswered[Len(ProbeAnswered) - 1].score \in Binary64SumBelow80

\* The tier the specification's step rule yields
ExpectedTier ==
    IF TwiceMean > 150 /\ LastTier \in {"beginner", "intermediate"}
    THEN LEVEL_ORDER[TierIndex(LastTier) + 1]
    ELSE IF MeanBelow040 /\ LastTier \in {"hard", "intermediate"}
    THEN LEVEL_ORDER[TierIndex(LastTier) - 1]
    ELSE LastTier

\* C6: with at least one answered item the desired tier before the quota
\* checks is the tier above the last answered one when the mean of the last
\* two scores is above 0.75 and a tier above exists, the tier below when the
\* mean is below 0.40 and a tier below exists, and the last tier otherwise
\* (so also at means of exactly 0.75 and 0.40); the question returned is of
\* that tier when the tier has quota and an unused pool question left.
C6_StepDecision ==
    (probe.called /\ ProbeAnswered # <<>>)
        => /\ desired_level(ProbeAnswered, ProbeBase) = ExpectedTier
           /\ (/\ ProbeReturned
               /\ Len(ProbeAnswered) < AdaptiveTotal
               /\ ExpectedTier \in Tiers
               /\ CountOf(ProbeAnswered, ExpectedTier) < Quota[ExpectedTier]
               /\ HasUnused(ProbePool, ExpectedTier))
              => (ProbeGotQuestion /\ probe_result.level = ExpectedTier)

\* Two intermediate answers with a mean of exactly 0.40 are followed by an
\* intermediate question.
C6_Witness ==
    /\ ProbeReturned /\ ProbeGotQuestion
    /\ Len(ProbeAnswered) >= 2
    /\ LastTier = "intermediate"
    /\ TwiceMean = 80 /\ ~MeanBelow040
    /\ probe_result.level = "intermediate"

-----------------------------------------------------------------------------
\* C7: with no answer recorded the desired tier of the first question is the
\* base tier, for each of the three tiers, and the question returned is of
\* that tier when the pool holds one.
C7_FirstTierIsBase ==
    (probe.called /\ ProbeAnswered = <<>> /\ ProbeBase \in Tiers)
        => /\ desired_level(ProbeAnswered, ProbeBase) = ProbeBase
           /\ (ProbeReturned /\ HasUnused(ProbePool, ProbeBase))
                 => (ProbeGotQuestion /\ probe_result.level = ProbeBase)

-----------------------------------------------------------------------------
\* The desired tier of the call before the quota checks
ProbeDesired == desired_level(ProbeAnswered, ProbeBase)

\* The tier the quota override of the specification selects
ExpectedSelected ==
    IF CountOf(ProbeAnswered, ProbeDesired) >= Quota[ProbeDesired]
    THEN IF CountOf(ProbeAnswered, "beginner") < Quota["beginner"] THEN "beginner"
         ELSE IF CountOf(ProbeAnswered, "intermediate") < Quota["intermediate"]
         THEN "intermediate"
         ELSE "hard"
    ELSE ProbeDesired

\* The call gets as far as the quota checks with a desired tier of the three
ProbeSelects ==
    probe.called /\ Len(ProbeAnswered) < AdaptiveTotal /\ ProbeDesired \in Tiers

\* C8: when the answered items of the desired tier have reached the cap of
\* the tier, the selected tier is the first of beginner, intermediate, hard
\* whose count is below its cap; a desired tier with quota left is kept. The
\* question returned is of the selected tier when the pool holds an unused
\* one.
C8_QuotaOverride ==
    ProbeSelects
        => /\ capped_level(ProbeAnswered, ProbeDesired) = ExpectedSelected
           /\ (ProbeReturned /\ HasUnused(ProbePool, ExpectedSelected))
                 => (ProbeGotQuestion /\ probe_result.level = ExpectedSelected)

\* The desired tier is full, beginner is full too, and the question returned
\* is of the first tier after it with quota left.
C8_Witness ==
    /\ ProbeSelects /\ ProbeReturned /\ ProbeGotQuestion
    /\ CountOf(ProbeAnswered, ProbeDesired) >= Quota[ProbeDesired]
    /\ CountOf(ProbeAnswered, "beginner") >= Quota["beginner"]
    /\ ExpectedSelected # ProbeDesired
    /\ probe_result.level = ExpectedSelected

-----------------------------------------------------------------------------
\* C9: when no skill-matched question of the selected tier is unused but the
\* bank holds an unused question of that tier, the selector returns a
\* question of that tier; it returns a question of another tier only when
\* the bank holds no unused question of the selected tier.
C9_TierBeforeOtherTiers ==
    (/\ ProbeSelects /\ ProbeReturned
     /\ ~HasUnused(get_questions_by_skills(resume_skills, PoolLimit, bank), ExpectedSelected)
     /\ HasUnused(bank, ExpectedSelected))
        => (ProbeGotQuestion /\ probe_result.level = ExpectedSelected)

-----------------------------------------------------------------------------
\* The session holds no question although fewer than target_total answers
\* are recorded: the selector found no unused question.
Exhausted ==
    /\ InAdaptive
    /\ "current_question" \in DOMAIN session
    /\ session.current_question = None
    /\ Len(Answered) < AdaptiveTotal

\* C10: when no unused question remains before target_total answers are
\* collected, the interview is finalized: no request leaves the user on the
\* dashboard with the unfinished session still stored.
C10_ExhaustedIsFinalized ==
    ~(Exhausted /\ response = "redirect:interview_dashboard")

-----------------------------------------------------------------------------
\* The session holds no interview: no adaptive key is left in it
NoInterview == DOMAIN session \cap AdaptiveKeys = {}

\* C11: a session is finalized exactly once.  A step saves at most one
\* InterviewSession record, and only as the step that records the
\* target_total-th answer: the record holds the answers to the questions of
\* that session and the session keys are cleared by the same step.  A step
\* that ends an adaptive interview saves its record.  Once no interview is
\* held, a request records no answer and saves nothing: only a start follows.
C11_FinalizedOnce ==
    [][/\ saved' # saved
          => /\ InAdaptive /\ Len(Answered) = AdaptiveTotal - 1
             /\ Len(saved') = Len(saved) + 1
             /\ SubSeq(saved', 1, Len(saved)) = saved
             /\ DOMAIN saved'[Len(saved')].answers = TextsOf(Trail)
             /\ NoInterview'
       /\ (InAdaptive /\ ~InAdaptive') => Len(saved') = Len(saved) + 1
       /\ NoInterview => (saved' = saved /\ Answered' = <<>>)]_vars

\* After an interview was saved, a request for the question page was sent
\* back to the dashboard.
C11_Witness ==
    /\ saved # <<>>
    /\ NoInterview
    /\ response = "redirect:interview_dashboard"

-----------------------------------------------------------------------------
\* C12: the evaluation stored with a saved interview is derived from the
\* answers of that interview: its per-question scores are keyed by the
\* question texts of the session, its average is the mean of the scores of
\* the session's answers, its flag is flag_for_score of that average and the
\* recommended level is next_level_from_flag of the session level and flag.
C12_ResultFromSessionAnswers ==
    \A i \in DOMAIN saved :
        LET row == saved[i]
            result == row.flag_records
            texts == DOMAIN row.answers
            total == SumOver(SetToSeq(texts), [qt \in texts |-> row.answers[qt].score])
        IN  /\ DOMAIN result.per_question = texts
            /\ result.avg_score * Cardinality(texts) = total
            /\ result.overall_flag = flag_for_score(result.avg_score * (ScoreScale \div 100))
            /\ row.recommended_next_level
                   = next_level_from_flag(row.current_level, result.overall_flag)

-----------------------------------------------------------------------------
\* The call of flag_for_score has returned
FlagsReturned == "overall_flag" \in DOMAIN probe_result

\* C13: with the default thresholds flag_for_score returns "Easier" exactly
\* when score < 0.5, "Harder" exactly when score >= 0.8 and "Same" exactly
\* when 0.5 <= score < 0.8.
C13_FlagThresholds ==
    FlagsReturned
        => /\ (probe_result.overall_flag = "Easier") <=> (10 * probe.score < 5 * ScoreScale)
           /\ (probe_result.overall_flag = "Harder") <=> (10 * probe.score >= 8 * ScoreScale)
           /\ (probe_result.overall_flag = "Same")
                  <=> (10 * probe.score >= 5 * ScoreScale /\ 10 * probe.score < 8 * ScoreScale)

\* The score 0.5 was flagged Same.
C13_Witness ==
    /\ FlagsReturned
    /\ 2 * probe.score = ScoreScale
    /\ probe_result.overall_flag = "Same"

-----------------------------------------------------------------------------
\* The position of a tier in beginner, intermediate, hard
StepOf(lvl) == CASE lvl = "beginner" -> 1 [] lvl = "intermediate" -> 2 [] lvl = "hard" -> 3

\* C14: for a current tier of the three, next_level_from_flag returns the
\* previous tier on Easier (beginner at beginner), the next tier on Harder
\* (hard at hard) and the current tier on Same; the result is at most one
\* step from the current tier.
C14_NextLevel ==
    (FlagsReturned /\ probe.current_level \in {"beginner", "intermediate", "hard"})
        => LET cur == probe.current_level
               nxt == probe_result.next_level
           IN  /\ nxt \in {"beginner", "intermediate", "hard"}
               /\ probe_result.overall_flag = "Easier"
                     => StepOf(nxt) = (IF cur = "beginner" THEN 1 ELSE StepOf(cur) - 1)
               /\ probe_result.overall_flag = "Harder"
                     => StepOf(nxt) = (IF cur = "hard" THEN 3 ELSE StepOf(cur) + 1)
               /\ probe_result.overall_flag = "Same" => nxt = cur
               /\ StepOf(nxt) - StepOf(cur) \in {-1, 0, 1}

\* A beginner flagged Easier stays a beginner.
C14_Witness ==
    /\ FlagsReturned
    /\ probe.current_level = "beginner"
    /\ probe_result.overall_flag = "Easier"
    /\ probe_result.next_level = "beginner"

-----------------------------------------------------------------------------
\* C15: in an adaptive session the tier of each issued question differs by at
\* most one step from the tier of the previously answered question, also
\* when the quota override or the pool fallback decided the tier.
C15_NoTierSkipped ==
    (InAdaptive /\ Answered # <<>> /\ Outstanding # <<>>)
        => StepOf(Outstanding[1].level) - StepOf(Answered[Len(Answered)].level)
               \in {-1, 0, 1}

-----------------------------------------------------------------------------
\* The calls of composite_answer_score and composite_breakdown have returned
ScoringReturned == "breakdown" \in DOMAIN probe_result

\* The four features of a breakdown
FeatureNames == {"coverage", "structure", "clarity", "depth"}

\* C16: for every answer, keyword list and level composite_answer_score
\* returns a value between 0 and 1; each of the four feature scores is
\* between 0 and 1, and the four weights of every tier sum to 1.
C16_ScoreInUnitInterval ==
    /\ \A lvl \in ProbeLevels :
           weights(lvl)[1] + weights(lvl)[2] + weights(lvl)[3] + weights(lvl)[4] = 100
    /\ ScoringReturned
           => /\ probe_result.score >= 0
              /\ probe_result.score <= ScoreScale
              /\ \A f \in FeatureNames :
                     probe_result.breakdown[f] >= 0 /\ probe_result.breakdown[f] <= 1000

\* A hedged answer of three words was scored for the hard tier: its length
\* score is below the hedge penalty, its clarity is 0 and its score positive.
C16_Witness ==
    /\ ScoringReturned
    /\ probe.level = "hard"
    /\ ~Falsy(probe.user_ans)
    /\ IsSubstring(<<"m", "a", "y", "b", "e">>, probe.user_ans)
    /\ probe_result.breakdown.clarity = 0
    /\ probe_result.score > 0

-----------------------------------------------------------------------------
\* C17: for an empty or null answer, whatever the keywords and the level,
\* composite_answer_score returns 0 and composite_breakdown returns
\* coverage 0, structure 0, clarity 0, depth 0 and final 0.
C17_EmptyAnswerScoresZero ==
    (ScoringReturned /\ (probe.user_ans = <<>> \/ probe.user_ans = NoText))
        => /\ probe_result.score = 0
           /\ \A f \in FeatureNames : probe_result.breakdown[f] = 0
           /\ probe_result.breakdown.final = 0

\* A null answer to a question with a keyword was scored 0.
C17_Witness ==
    /\ ScoringReturned
    /\ probe.user_ans = NoText
    /\ probe.correct_keywords = <<KwMysql>>
    /\ probe_result.score = 0
    /\ probe_result.breakdown.final = 0

-----------------------------------------------------------------------------
\* C18: for an empty keyword list, whatever the answer and the level,
\* composite_answer_score returns 0.
C18_EmptyKeywordsScoreZero ==
    (ScoringReturned /\ probe.correct_keywords = <<>>) => probe_result.score = 0

-----------------------------------------------------------------------------
\* The words of a text: what the spaces separate
WordsOf(text) == Runs(text, Alphabet \ Whitespace)

\* Every keyword phrase has a word, and every word of every phrase is a word
\* of the answer
PhrasesVerbatim ==
    /\ probe.user_ans # NoText
    /\ probe.correct_keywords # NoList
    /\ probe.correct_keywords # <<>>
    /\ \A i \in DOMAIN probe.correct_keywords :
           /\ WordsOf(probe.correct_keywords[i]) # <<>>
           /\ Range(WordsOf(probe.correct_keywords[i])) \subseteq Range(WordsOf(probe.user_ans))

\* C19: when every word of every keyword phrase appears verbatim in the
\* answer the coverage score is 1, also for phrases that hold stop words,
\* short words or punctuation.
C19_VerbatimWordsCoverOne ==
    (ScoringReturned /\ PhrasesVerbatim) => probe_result.breakdown.coverage = 1000

-----------------------------------------------------------------------------
\* C20: for a level label outside beginner, intermediate, hard the score and
\* the breakdown are those of the beginner configuration: the beginner
\* weights and the beginner clarity window.
C20_UnknownLevelUsesBeginner ==
    (ScoringReturned /\ probe.level \notin {"beginner", "intermediate", "hard"})
        => /\ probe_result.score
                  = composite_answer_score(probe.user_ans, probe.correct_keywords, "beginner")
           /\ probe_result.breakdown
                  = composite_breakdown(probe.user_ans, probe.correct_keywords, "beginner")

-----------------------------------------------------------------------------
\* C21: for every base level a profile can hold, the three tiers and the
\* "advanced" of the settings form among them, and every level an answered
\* item carries, get_adaptive_questions returns a question or None and
\* raises nothing.
C21_SelectorNeverRaises ==
    ProbeReturned => (ProbeGotQuestion \/ probe_result = None)

-----------------------------------------------------------------------------
\* The instructions of the interview the session holds are not acknowledged
Pending == Get(session, "instructions_pending", FALSE)

\* C25: in an adaptive session each answer submission appends exactly one
\* item to the end of answered, made of the text and the level of the
\* outstanding question and of the score of the answer, and leaves the
\* earlier items as they were; answered changes in no other way than by such
\* an append or by being emptied, and no step changes the question bank.
C25_AppendsOneItem ==
    [][/\ bank' = bank
       /\ Answered' # Answered
             => \/ Answered' = <<>>
                \/ /\ Outstanding # <<>>
                   /\ Len(Answered') = Len(Answered) + 1
                   /\ SubSeq(Answered', 1, Len(Answered)) = Answered
                   /\ LET q == Outstanding[1]
                          item == Answered'[Len(Answered')]
                      IN  /\ item.question_text = q.question_text
                          /\ item.level = q.level
                          /\ \E a \in AnswerTexts :
                                item.score = round2(ScoreOrZero(
                                    score_single_answer(a, q.keywords,
                                                        Get(q, "tokens", None), q.level)))
       /\ (InAdaptive /\ ~Pending /\ response' = "redirect:interview_question")
             => Len(Answered') = Len(Answered) + 1]_vars

\* Two answers were recorded and the next question is outstanding.
C25_Witness ==
    /\ InAdaptive
    /\ Len(Answered) = 2
    /\ Outstanding # <<>>
    /\ response = "redirect:interview_question"

-----------------------------------------------------------------------------
\* The mode in which the question view processes the next request
ServingMode == Get(session, "interview_mode", "fixed")

\* The number of answers the question view counts for the interview it serves
AnsweredCount ==
    IF ServingMode = "adaptive"
    THEN Len(Answered)
    ELSE Get(session, "current_question_index", 0)

\* The question the question view serves next, as a list of at most one
Served ==
    IF ServingMode = "adaptive"
    THEN Outstanding
    ELSE LET questions == Get(session, "interview_questions", <<>>)
         IN  IF AnsweredCount < Len(questions)
             THEN <<questions[AnsweredCount + 1]>>
             ELSE <<>>

\* C27: a start that prepares an interview, in fixed or in adaptive mode,
\* leaves a session in which the question view works in the mode of the new
\* interview, counts no answer and serves the first question of the new
\* interview, whatever an abandoned interview left in the session.
C27_StartDiscardsAbandoned ==
    [][/\ (StartFixed /\ response' = "redirect:interview_instructions")
             => /\ ServingMode' = "fixed"
                /\ AnsweredCount' = 0
                /\ Served' = <<session'.interview_questions[1]>>
       /\ (StartAdaptive /\ response' = "redirect:interview_instructions")
             => /\ ServingMode' = "adaptive"
                /\ AnsweredCount' = 0
                /\ Served' # <<>>]_vars

-----------------------------------------------------------------------------
\* The answers a session holds, of either mode
RecordedTexts ==
    TextsOf(Answered) \cup DOMAIN Get(session, "user_answers", <<>>)

\* C28: while the instructions of a started interview are not acknowledged,
\* no step serves a question, records an answer or saves an interview, and
\* the only step that ends the wait is the acknowledgement, which changes
\* nothing else in the session and sends the user to the question page; the
\* instructions screen is rendered only while the acknowledgement is pending,
\* so after it the instructions view redirects away.
C28_InstructionsGate ==
    [][/\ Pending
             => /\ response' # "render:question_page"
                /\ saved' = saved
                /\ RecordedTexts' \subseteq RecordedTexts
                /\ ~Pending'
                      => /\ session' = Put(session, "instructions_pending", FALSE)
                         /\ response' = "redirect:interview_question"
       /\ response' = "render:instructions" => (Pending /\ Pending')
       /\ (~Pending /\ \E method \in Methods : InstructionsView(method))
             => (response' = "redirect:interview_dashboard" /\ session' = session)]_vars

\* The instructions of an interview were acknowledged, a question was
\* answered, and a later request for the instructions was redirected.
C28_Witness ==
    /\ "instructions_pending" \in DOMAIN session
    /\ ~Pending
    /\ RecordedTexts # {}
    /\ response = "redirect:interview_dashboard"

-----------------------------------------------------------------------------
\* C29: the stored profile level is one of beginner, intermediate and hard
\* after any sequence of settings updates and interview steps.
C29_ProfileLevelIsTier == profile_level \in Tiers

-----------------------------------------------------------------------------
\* The session of user u
SessionOf(u) == IF u = probe.user THEN session ELSE probe.sessions[u]

\* The answered list, the current question and the scored answers of user u
InterviewOf(u) ==
    [k \in {"answered", "current_question", "scored_answers"} \cap DOMAIN SessionOf(u)
        |-> SessionOf(u)[k]]

-----------------------------------------------------------------------------
\* A term is present in the tokenized answer: it is one of the tokens, or it
\* and a token have more than three characters and are similar
Present(tokens, term) ==
    \E i \in DOMAIN tokens :
        \/ tokens[i] = term
        \/ /\ Len(term) > 3
           /\ Len(tokens[i]) > 3
           /\ RatioAtLeastThreshold(tokens[i], term)

\* The keywords that are strings and not blank, stripped and in lower case
UsableKeywords(kws) ==
    LET usable == SelectSeq(kws, LAMBDA w : w # NoText /\ strip(w) # <<>>)
    IN  [i \in DOMAIN usable |-> lower(strip(usable[i]))]

\* A keyword is hit: it has parts and all of them are present, or the whole
\* keyword is present
KeywordHit(tokens, kw) ==
    LET parts == Runs(kw, PartChars)
    IN  \/ parts # <<>> /\ \A i \in DOMAIN parts : Present(tokens, parts[i])
        \/ Present(tokens, kw)

\* C23: the coverage, as the breakdown reports it, is the number of hit
\* keywords divided by the number of keywords that are non-blank strings (of
\* which the lists here hold one or two, so that the coverage is a whole
\* number of thousandths); a keyword is hit when
\* all of the parts that whitespace, hyphens and slashes separate in it are
\* present in the tokenized answer, or the whole keyword is; it is 0 when no
\* usable keyword remains or the answer is empty.
C23_CoverageFormula ==
    ScoringReturned
        => LET tokens == tokenize(probe.user_ans)
               wanted == UsableKeywords(OrEmptyList(probe.correct_keywords))
               hits == Cardinality({i \in DOMAIN wanted : KeywordHit(tokens, wanted[i])})
           IN  /\ Len(wanted) > 0
                     => probe_result.breakdown.coverage * Len(wanted) = 1000 * hits
               /\ (Len(wanted) = 0 \/ Falsy(probe.user_ans))
                     => probe_result.breakdown.coverage = 0

\* Of two keywords one is no string and the other is hit by a word
\* of the answer: the coverage is 1.
C23_Witness ==
    /\ ScoringReturned
    /\ probe.correct_keywords # NoList
    /\ \E i \in DOMAIN probe.correct_keywords : probe.correct_keywords[i] = NoText
    /\ probe_result.breakdown.coverage = 1000

-----------------------------------------------------------------------------
\* The length score of the call is computed
ClarityReturned == "length_score" \in DOMAIN probe_result

\* The bounds of the length window of the level of the call
WindowLow == clarity_window(probe.level)[1]
WindowHigh == clarity_window(probe.level)[2]

\* C24: for an answer of wc words the length score of the clarity feature is
\* wc/low below low and 1 from low to high; above high it decays linearly
\* from 1 to its floor 0.5, which it reaches at wc = 2*high: it is strictly
\* above 0.5 for high < wc < 2*high and exactly 0.5 for every wc >= 2*high.
C24_LengthDecay ==
    ClarityReturned
        => LET wc == probe.words
               got == probe_result.length_score
           IN  /\ wc < WindowLow => got * WindowLow = wc * FeatureScale
               /\ (wc >= WindowLow /\ wc <= WindowHigh) => got = FeatureScale
               /\ (wc > WindowHigh /\ wc < 2 * WindowHigh)
                     => (2 * got > FeatureScale /\ got < FeatureScale)
               /\ wc >= 2 * WindowHigh => 2 * got = FeatureScale

-----------------------------------------------------------------------------
\* The call of get_fixed_interview_questions has returned
FixedReturned == "questions" \in DOMAIN probe_result

\* The pool of the call holds at least counts[lvl] questions of every level
PoolSuffices ==
    \A lvl \in Tiers :
        CountOf(all_questions(resume_skills, bank), lvl) >= probe.level_counts[lvl]

\* The result holds exactly counts[lvl] questions of every level
ExactCounts ==
    \A lvl \in Tiers : CountOf(probe_result.questions, lvl) = probe.level_counts[lvl]

\* No question dictionary occurs twice in the result
NoDictTwice ==
    \A i \in DOMAIN probe_result.questions : \A k \in DOMAIN probe_result.questions :
        probe_result.questions[i] = probe_result.questions[k] => i = k

\* No question dictionary occurs twice in the pool of the call
PoolDistinct ==
    LET pool == all_questions(resume_skills, bank)
    IN  \A i \in DOMAIN pool : \A k \in DOMAIN pool : pool[i] = pool[k] => i = k

\* C26, as stated: the result has at most total questions; whenever the pool
\* holds counts[lvl] questions of every level it has exactly counts[lvl]
\* questions of each level, for every total; no dictionary occurs twice.
C26_FixedCounts ==
    FixedReturned
        => /\ Len(probe_result.questions) <= probe.total
           /\ PoolSuffices => ExactCounts
           /\ NoDictTwice

\* C26, amended: the result has exactly counts[lvl] questions of each level
\* when the pool suffices and total is the sum of the counts, as it is when
\* total is omitted and in the call of start_interview_view; a smaller total
\* cuts the result and a larger one is filled from the rest of the pool.  No
\* dictionary occurs twice in the result when none occurs twice in the pool.
C26_FixedCountsAtSum ==
    FixedReturned
        => /\ Len(probe_result.questions) <= probe.total
           /\ (PoolSuffices /\ probe.total = SumCounts(probe.level_counts)) => ExactCounts
           /\ (PoolSuffices /\ probe.total < SumCounts(probe.level_counts))
                 => Len(probe_result.questions) = probe.total
           /\ (PoolSuffices /\ probe.total > SumCounts(probe.level_counts))
                 => \A lvl \in Tiers :
                        CountOf(probe_result.questions, lvl) >= probe.level_counts[lvl]
           /\ PoolDistinct => NoDictTwice

\* The default counts with their sum as total over a pool with more rows of
\* each tier than asked for: 4 beginner, 3 intermediate and 3 hard questions.
C26_Witness ==
    /\ FixedReturned
    /\ probe.level_counts = [beginner |-> 4, intermediate |-> 3, hard |-> 3]
    /\ probe.total = 10
    /\ PoolDistinct
    /\ \A lvl \in Tiers : CountOf(all_questions(resume_skills, bank), lvl) > probe.level_counts[lvl]
    /\ Len(probe_result.questions) = 10
    /\ ExactCounts

-----------------------------------------------------------------------------
\* C30: for every answer, keyword list and level the final of the breakdown
\* is the composite score rounded to 3 decimals: the thousandth nearest to
\* it.  The composite score is the clamped weighted sum of the coverage,
\* structure, clarity and depth of the answer, and the features of the
\* breakdown are these four values rounded to 3 decimals.
C30_BreakdownAgrees ==
    ScoringReturned
        => LET ans == OrEmpty(probe.user_ans)
               cov == _coverage_score(ans, OrEmptyList(probe.correct_keywords))
               struct == structure_score(_structure_features(ans))
               clarity == _clarity_conciseness_score(ans, probe.level)
               depth == _depth_score(ans)
               gap == probe_result.breakdown.final * FeatureScale - 10 * probe_result.score
           IN  /\ 2 * gap <= FeatureScale
               /\ 2 * gap >= -FeatureScale
               /\ probe_result.score
                      = Max(0, Min(ScoreScale,
                                   weighted_sum(weights(probe.level), cov, struct, clarity, depth)))
               /\ probe_result.breakdown.coverage = round3(cov)
               /\ probe_result.breakdown.structure = round3(struct)
               /\ probe_result.breakdown.clarity = round3(clarity)
               /\ probe_result.breakdown.depth = round3(depth)

\* A composite score that is no whole number of thousandths and is rounded up
C30_Witness ==
    /\ ScoringReturned
    /\ (10 * probe_result.score) % FeatureScale # 0
    /\ probe_result.breakdown.final * FeatureScale > 10 * probe_result.score
====
